---- MODULE Spec2Model ----
(***************************************************************************)
(* The Viewer component of src/components/viewer.tsx: the two custom       *)
(* toolbar handlers (Content Boxes, AI Replace), the overlay click         *)
(* listener, and the React render / toolbar refresh that installs fresh    *)
(* handler closures in the external viewer.                                *)
(*                                                                         *)
(* React state (isEditing, selected, isProcessing) is what the setters     *)
(* have queued; the handlers the viewer's toolbar holds read the values    *)
(* captured by the last render whose effect called setToolbarItems         *)
(* (variable toolbar).  Every await is a point where other events run.     *)
(***************************************************************************)
EXTENDS Integers, Sequences, FiniteSets, TLC

\* Number of toolbar presses that get past the guards in one behaviour.
MaxOps == 2

\* Number of times the document prop changes in one behaviour.
MaxDocumentChanges == 1

\* Longest original text handed to generateRandomText.
MaxOriginalLength == 18

\* The document the external viewer serves: the region ids of each page.
Pages == << <<"r1">>, <<"r2">> >>

totalPageCount == Len(Pages)

VARIABLES
  isEditing,      \* useState isEditing (latest queued value)
  selected,       \* useState selected: sequence of text blocks
  isProcessing,   \* useState isProcessing
  toolbar,        \* the state values the installed onPress closures captured
  overlaysRef,    \* overlaysRef.current: sequence of overlay ids
  textBlocksRef,  \* textBlocksRef.current: sequence of text blocks
  customOverlays, \* custom overlay items present in the external viewer
  ops,            \* the handler invocations in flight (awaiting a call)
  nOps,           \* how many invocations got past the guards so far
  last,           \* what the step just taken was, when it was a press that got
                  \* past the guards or the end of an invocation
  viewer,         \* NutrientViewer.load of the current document: "loading",
                  \* "ready" (the promise resolved) or "failed" (it rejected)
  nDocs,          \* how many times the document prop changed so far
  cleanedUp,      \* the effect cleanup ran and no Content Boxes press got past
                  \* the guards since
  gen,            \* a run of generateRandomText: its locals and its position
  loader          \* NutrientViewer.load and what its then left behind: the
                  \* calls made for the current document, the document whose
                  \* instance window.viewerInstance holds (0: undefined), the
                  \* documents with a page-change listener

vars == <<isEditing, selected, isProcessing, toolbar, overlaysRef,
          textBlocksRef, customOverlays, ops, nOps, last, viewer, nDocs,
          cleanedUp, gen, loader>>

OpIds == 1..MaxOps

\* A slot with no invocation in flight.  A slot also records the session its
\* invocation opened and the calls made on it.
NoOp ==
  [kind |-> "none", pc |-> "idle", pageIndex |-> 0, allTextBlocks |-> <<>>,
   selected |-> <<>>, error |-> "none", discardFailed |-> FALSE,
   beginCalls |-> 0, getTextBlocksCalls |-> <<>>,
   opened |-> FALSE, updateCalls |-> 0, batch |-> <<>>, commitCalls |-> 0,
   committed |-> FALSE, discardCalls |-> 0, discarded |-> FALSE,
   pre |-> [isEditing |-> FALSE, selected |-> <<>>, overlaysRef |-> <<>>]]

\* No press got past the guards and no invocation ended in the step just taken.
NoLast == [type |-> "none", op |-> NoOp, outstanding |-> FALSE]

\* An invocation is awaiting an external call.
InFlight == {i \in OpIds : ops[i].kind # "none"}

\* The component state at the moment of an AI Replace press.
Snapshot ==
  [isEditing |-> isEditing, selected |-> selected, overlaysRef |-> overlaysRef]

\* The editing flag at the moment of a Content Boxes press (the only part of
\* the state that handler branches on).
EditingSnapshot ==
  [isEditing |-> isEditing, selected |-> <<>>, overlaysRef |-> <<>>]

Rendered ==
  [isEditing |-> isEditing, selected |-> selected, isProcessing |-> isProcessing]

----------------------------------------------------------------------------
(* Pure helpers *)

Ids(blocks) == [k \in 1..Len(blocks) |-> blocks[k].id]

\* tempSession.getTextBlocks(pageIndex): the blocks of a zero-based page
getTextBlocks(pageIndex) == Pages[pageIndex + 1]

\* pageTextBlocks.map(tb => ({...tb, pageIndex}))
textBlocksWithPageIndex(pageTextBlocks, pageIndex) ==
  [k \in 1..Len(pageTextBlocks) |->
     [id |-> pageTextBlocks[k], pageIndex |-> pageIndex]]

\* `overlay-${textBlock.id}`
overlayId(id) == <<"overlay", id>>

\* the CustomOverlayItem built for a text block; its node starts with a blue border
CustomOverlayItem(textBlock) ==
  [id |-> overlayId(textBlock.id), pageIndex |-> textBlock.pageIndex,
   textBlock |-> textBlock, borderColor |-> "blue"]

\* viewerInstance.setCustomOverlayItem: an item with the same id is replaced
setCustomOverlayItem(items, item) ==
  {o \in items : o.id # item.id} \cup {item}

\* viewerInstance.removeCustomOverlayItem
removeCustomOverlayItem(items, id) == {o \in items : o.id # id}

\* allTextBlocks.forEach(... setCustomOverlayItem(item)) for the first n blocks
RECURSIVE AddOverlays(_, _, _)
AddOverlays(items, blocks, n) ==
  IF n = 0 THEN items
  ELSE setCustomOverlayItem(AddOverlays(items, blocks, n - 1),
                            CustomOverlayItem(blocks[n]))

\* overlaysRef.current.forEach(removeCustomOverlayItem) for the first n ids
RECURSIVE RemoveOverlays(_, _, _)
RemoveOverlays(items, ids, n) ==
  IF n = 0 THEN items
  ELSE removeCustomOverlayItem(RemoveOverlays(items, ids, n - 1), ids[n])

\* A forEach over len elements whose k-th call throws (k = 0: none throws)
\* has completed this many calls.
Completed(len, k) == IF k = 0 THEN len ELSE k - 1

\* ToggleSelected without the test for an entry with the same id.
ToggleSelected_NoSomeTest(prevSelected, textBlock, isCurrentlyBlue) ==
  IF isCurrentlyBlue
    THEN Append(prevSelected, textBlock)
    ELSE SelectSeq(prevSelected, LAMBDA tb : tb.id # textBlock.id)

\* the updater passed to setSelected by the overlay click listener
ToggleSelected(prevSelected, textBlock, isCurrentlyBlue) ==
  IF isCurrentlyBlue
    THEN IF \E k \in DOMAIN prevSelected : prevSelected[k].id = textBlock.id
           THEN prevSelected
           ELSE Append(prevSelected, textBlock)
    ELSE SelectSeq(prevSelected, LAMBDA tb : tb.id # textBlock.id)

\* selected.map(textBlock => ({id, text: generateRandomText(text)})): the ids
updatedTextBlocks(sel) == Ids(sel)

\* the words generateRandomText draws from
words ==
  {"AI", "tech", "smart", "fast", "new", "good", "best", "top", "big", "real",
   "data", "code", "web", "app", "tool", "work", "easy", "cool", "hot", "fun",
   "modern", "clean", "simple", "quick", "strong", "bright", "fresh", "bold"}

maxAttempts == 100

lorem ==
  "Lorem ipsum dolor sit amet consectetur adipiscing elit sed do eiusmod tempor incididunt ut labore et dolore magna aliqua"

\* String.prototype.substring(0, end)
substring(str, end) ==
  SubSeq(str, 1, IF end < 0 THEN 0 ELSE IF end > Len(str) THEN Len(str) ELSE end)

\* String.prototype.trim
RECURSIVE trim(_)
trim(str) ==
  IF str = "" THEN str
  ELSE IF SubSeq(str, 1, 1) = " " THEN trim(SubSeq(str, 2, Len(str)))
  ELSE IF SubSeq(str, Len(str), Len(str)) = " "
         THEN trim(SubSeq(str, 1, Len(str) - 1))
  ELSE str

\* result + (result ? ' ' : '') + text
withSeparator(result, text) ==
  result \o (IF result # "" THEN " " ELSE "") \o text

\* generateRandomText after its word loop: the lorem padding, the truncation
\* and the fallback of the return statement
afterWordLoop(originalLength, result) ==
  LET remainingLength == originalLength - Len(result) - 1
      padded ==
        IF Len(result) < originalLength - 20 /\ remainingLength > 0
          THEN withSeparator(result, substring(lorem, remainingLength))
          ELSE result
      cut ==
        IF Len(padded) > originalLength
          THEN trim(substring(padded, originalLength))
          ELSE padded
  IN IF cut # "" THEN cut ELSE "AI text"

\* NutrientViewer.load has been called once for the document and has not
\* settled; window.viewerInstance keeps what an earlier load stored.
FirstLoad ==
  [loadCalls |-> 1, viewerInstance |-> 0, listeners |-> {}]

\* No run of generateRandomText.
NoGen ==
  [pc |-> "idle", originalLength |-> 0, result |-> "", attempts |-> 0,
   stop |-> "none"]

----------------------------------------------------------------------------
Init ==
  /\ isEditing = FALSE
  /\ selected = <<>>
  /\ isProcessing = FALSE
  /\ toolbar = [isEditing |-> FALSE, selected |-> <<>>, isProcessing |-> FALSE]
  /\ overlaysRef = <<>>
  /\ textBlocksRef = <<>>
  /\ customOverlays = {}
  /\ ops = [i \in OpIds |-> NoOp]
  /\ nOps = 0
  /\ last = NoLast
  /\ viewer = "loading"
  /\ nDocs = 0
  /\ cleanedUp = FALSE
  /\ gen = NoGen
  /\ loader = FirstLoad

\* Invocation i goes on to await its next call.
Continue(i, op) ==
  /\ ops' = [ops EXCEPT ![i] = op]
  /\ last' = NoLast
  /\ UNCHANGED <<viewer, nDocs, cleanedUp, gen, loader>>

\* Invocation i returns.
Finish(i, op) ==
  /\ ops' = [ops EXCEPT ![i] = NoOp]
  /\ last' = [type |-> "finish", op |-> [op EXCEPT !.pc = "done"],
              outstanding |-> FALSE]
  /\ UNCHANGED <<viewer, nDocs, cleanedUp, gen, loader>>

\* A press gets past the guards and its handler reaches its first await.
Accept(op) ==
  /\ viewer = "ready"
  /\ nOps < MaxOps
  /\ nOps' = nOps + 1
  /\ ops' = [ops EXCEPT ![nOps + 1] = op]
  /\ last' = [type |-> "press", op |-> op, outstanding |-> InFlight # {}]
  /\ cleanedUp' = IF op.kind = "enter" THEN FALSE ELSE cleanedUp
  /\ UNCHANGED <<viewer, nDocs, gen, loader>>

\* A render with changed state recomputes the memoised toolbar items and the
\* effect hands them to the viewer with setToolbarItems.
Render ==
  /\ viewer = "ready"
  /\ toolbar # Rendered
  /\ toolbar' = Rendered
  /\ last' = NoLast
  /\ UNCHANGED <<isEditing, selected, isProcessing, overlaysRef, textBlocksRef,
                 customOverlays, ops, nOps, viewer, nDocs, cleanedUp, gen,
                 loader>>

\* The click listener of an overlay's node.
OverlayClick(o) ==
  /\ o \in customOverlays
  /\ LET isCurrentlyBlue == o.borderColor = "blue"
     IN /\ customOverlays' =
             (customOverlays \ {o}) \cup
               {[o EXCEPT !.borderColor = IF isCurrentlyBlue THEN "red" ELSE "blue"]}
        /\ selected' = ToggleSelected(selected, o.textBlock, isCurrentlyBlue)
  /\ last' = [type |-> "click",
              op |-> [NoOp EXCEPT !.kind = "click", !.pc = "done",
                                  !.selected = <<o.textBlock>>,
                                  !.pre = Snapshot],
              outstanding |-> InFlight # {}]
  /\ UNCHANGED <<isEditing, isProcessing, toolbar, overlaysRef, textBlocksRef,
                 ops, nOps, viewer, nDocs, cleanedUp, gen, loader>>

----------------------------------------------------------------------------
(* handleContentBoxesPress *)

\* the isProcessing guard of the installed closure
ContentBoxesIgnored ==
  /\ viewer = "ready"
  /\ toolbar.isProcessing
  /\ UNCHANGED vars

\* the isEditing branch: runs to its end without awaiting.  The k-th
\* removeCustomOverlayItem call throws (k = 0: none does) and the outer catch
\* and finally follow.
ExitEditing(k) ==
  /\ viewer = "ready"
  /\ ~toolbar.isProcessing
  /\ toolbar.isEditing
  /\ nOps < MaxOps
  /\ k \in 0..Len(overlaysRef)
  /\ customOverlays' =
       RemoveOverlays(customOverlays, overlaysRef, Completed(Len(overlaysRef), k))
  /\ IF k = 0
       THEN /\ overlaysRef' = <<>>
            /\ textBlocksRef' = <<>>
            /\ selected' = <<>>
       ELSE UNCHANGED <<overlaysRef, textBlocksRef, selected>>
  /\ isEditing' = FALSE
  /\ isProcessing' = FALSE
  /\ nOps' = nOps + 1
  /\ last' = [type |-> "exit",
              op |-> [NoOp EXCEPT !.kind = "exit", !.pc = "done",
                                  !.pre = EditingSnapshot,
                                  !.error = IF k = 0 THEN "none" ELSE "remove"],
              outstanding |-> InFlight # {}]
  /\ cleanedUp' = FALSE
  /\ UNCHANGED <<toolbar, ops, viewer, nDocs, gen, loader>>

\* the else branch up to its first await
StartEditing ==
  /\ ~toolbar.isProcessing
  /\ ~toolbar.isEditing
  /\ isProcessing' = TRUE
  /\ isEditing' = TRUE
  /\ Accept([NoOp EXCEPT !.kind = "enter", !.pc = "begin",
                         !.beginCalls = 1, !.pre = EditingSnapshot])
  /\ UNCHANGED <<selected, toolbar, overlaysRef, textBlocksRef, customOverlays>>

\* the finally of the inner try: await tempSession.discard()
CallTempDiscard(i, error) ==
  Continue(i, [ops[i] EXCEPT !.pc = "discard", !.opened = TRUE,
                             !.error = error,
                             !.allTextBlocks = <<>>, !.pageIndex = 0,
                             !.discardCalls = @ + 1])

\* after the page loop: store the blocks, create the overlays (the k-th
\* setCustomOverlayItem call throws, k = 0: none does), then the finally
CreateOverlays(i, all, k) ==
  /\ textBlocksRef' = all
  /\ customOverlays' =
       IF viewer = "ready"
         THEN AddOverlays(customOverlays, all, Completed(Len(all), k))
         ELSE customOverlays
  /\ overlaysRef' = IF k = 0 THEN [j \in 1..Len(all) |-> overlayId(all[j].id)]
                             ELSE overlaysRef
  /\ CallTempDiscard(i, IF k = 0 THEN "none" ELSE "overlay")
  /\ UNCHANGED <<isEditing, selected, isProcessing, toolbar, nOps>>

\* the head of the page loop with allTextBlocks = all
PageLoop(i, all, pageIndex) ==
  IF pageIndex < totalPageCount
    THEN /\ Continue(i, [ops[i] EXCEPT !.pc = "getTextBlocks", !.opened = TRUE,
                                       !.pageIndex = pageIndex,
                                       !.getTextBlocksCalls =
                                          Append(@, pageIndex),
                                       !.allTextBlocks = all])
         /\ UNCHANGED <<isEditing, selected, isProcessing, toolbar, overlaysRef,
                        textBlocksRef, customOverlays, nOps>>
    ELSE \E k \in 0..Len(all) : CreateOverlays(i, all, k)

\* EnterFails with a catch that calls beginContentEditingSession once more
\* before giving up.
EnterFails_Retries(i) ==
  IF ops[i].beginCalls < 2
    THEN /\ Continue(i, [ops[i] EXCEPT !.beginCalls = @ + 1])
         /\ UNCHANGED <<isEditing, selected, isProcessing, toolbar, overlaysRef,
                        textBlocksRef, customOverlays, nOps>>
    ELSE /\ isEditing' = FALSE
         /\ isProcessing' = FALSE
         /\ Finish(i, [ops[i] EXCEPT !.error = "begin"])
         /\ UNCHANGED <<selected, toolbar, overlaysRef, textBlocksRef,
                        customOverlays, nOps>>

\* the outer catch and finally, reached without a session
EnterFails(i) ==
  /\ isEditing' = FALSE
  /\ isProcessing' = FALSE
  /\ Finish(i, [ops[i] EXCEPT !.error = "begin"])
  /\ UNCHANGED <<selected, toolbar, overlaysRef, textBlocksRef, customOverlays,
                 nOps>>

\* beginContentEditingSession() settles in handleContentBoxesPress
EnterBeginReturns(i, ok) ==
  /\ ops[i].kind = "enter"
  /\ ops[i].pc = "begin"
  /\ IF ok THEN PageLoop(i, <<>>, 0) ELSE EnterFails(i)

\* GetTextBlocksReturns with the discard after the try body instead of in a
\* finally: a failing getTextBlocks goes straight to the outer catch.
GetTextBlocksReturns_NoFinally(i, ok) ==
  /\ ops[i].kind = "enter"
  /\ ops[i].pc = "getTextBlocks"
  /\ LET pageIndex == ops[i].pageIndex
     IN IF ok
          THEN PageLoop(i,
                 ops[i].allTextBlocks \o
                   textBlocksWithPageIndex(getTextBlocks(pageIndex), pageIndex),
                 pageIndex + 1)
          ELSE /\ isEditing' = FALSE
               /\ isProcessing' = FALSE
               /\ Finish(i, [ops[i] EXCEPT !.error = "getTextBlocks"])
               /\ UNCHANGED <<selected, toolbar, overlaysRef, textBlocksRef,
                              customOverlays, nOps>>

\* GetTextBlocksReturns with the try inside the page loop: a page whose
\* getTextBlocks failed is skipped and the enumeration goes on.
GetTextBlocksReturns_SkipsFailedPage(i, ok) ==
  /\ ops[i].kind = "enter"
  /\ ops[i].pc = "getTextBlocks"
  /\ LET pageIndex == ops[i].pageIndex
     IN PageLoop(i,
          IF ok
            THEN ops[i].allTextBlocks \o
                   textBlocksWithPageIndex(getTextBlocks(pageIndex), pageIndex)
            ELSE ops[i].allTextBlocks,
          pageIndex + 1)

\* tempSession.getTextBlocks(pageIndex) settles
GetTextBlocksReturns(i, ok) ==
  /\ ops[i].kind = "enter"
  /\ ops[i].pc = "getTextBlocks"
  /\ LET pageIndex == ops[i].pageIndex
     IN IF ok
          THEN PageLoop(i,
                 ops[i].allTextBlocks \o
                   textBlocksWithPageIndex(getTextBlocks(pageIndex), pageIndex),
                 pageIndex + 1)
          ELSE /\ CallTempDiscard(i, "getTextBlocks")
               /\ UNCHANGED <<isEditing, selected, isProcessing, toolbar,
                              overlaysRef, textBlocksRef, customOverlays, nOps>>

\* TempDiscardReturns with an outer catch that only logs.
TempDiscardReturns_KeepsEditing(i, ok) ==
  /\ ops[i].kind = "enter"
  /\ ops[i].pc = "discard"
  /\ isProcessing' = FALSE
  /\ Finish(i, [ops[i] EXCEPT !.discarded = ok, !.discardFailed = ~ok])
  /\ UNCHANGED <<isEditing, selected, toolbar, overlaysRef, textBlocksRef,
                 customOverlays, nOps>>

\* tempSession.discard() settles; then the outer catch (if anything threw)
\* and the outer finally
TempDiscardReturns(i, ok) ==
  /\ ops[i].kind = "enter"
  /\ ops[i].pc = "discard"
  /\ isEditing' = IF ops[i].error # "none" \/ ~ok THEN FALSE ELSE isEditing
  /\ isProcessing' = FALSE
  /\ Finish(i, [ops[i] EXCEPT !.discarded = ok, !.discardFailed = ~ok])
  /\ UNCHANGED <<selected, toolbar, overlaysRef, textBlocksRef, customOverlays,
                 nOps>>

handleContentBoxesPress ==
  \/ ContentBoxesIgnored
  \/ \E k \in 0..Len(overlaysRef) : ExitEditing(k)
  \/ StartEditing

----------------------------------------------------------------------------
(* aiToolbar.onPress *)

\* the guards of the installed closure
AIIgnored ==
  /\ viewer = "ready"
  /\ \/ ~toolbar.isEditing
     \/ toolbar.selected = <<>>
     \/ toolbar.isProcessing
  /\ UNCHANGED vars

\* past the guards, up to the first await
AIStart ==
  /\ toolbar.isEditing
  /\ toolbar.selected # <<>>
  /\ ~toolbar.isProcessing
  /\ isProcessing' = TRUE
  /\ Accept([NoOp EXCEPT !.kind = "ai", !.pc = "begin", !.beginCalls = 1,
                         !.selected = toolbar.selected, !.pre = Snapshot])
  /\ UNCHANGED <<isEditing, selected, toolbar, overlaysRef, textBlocksRef,
                 customOverlays>>

\* the inner catch: await session.discard()
CallDiscard(i, error) ==
  Continue(i, [ops[i] EXCEPT !.pc = "discard", !.error = error,
                             !.discardCalls = @ + 1])

\* beginContentEditingSession() settles in aiToolbar.onPress; on success the
\* batch is built from the captured selection and submitted, on failure the
\* outer catch and finally run
AIBeginReturns(i, ok) ==
  /\ ops[i].kind = "ai"
  /\ ops[i].pc = "begin"
  /\ IF ok
       THEN /\ Continue(i, [ops[i] EXCEPT
                              !.pc = "update", !.opened = TRUE,
                              !.updateCalls = @ + 1,
                              !.batch = updatedTextBlocks(ops[i].selected)])
            /\ UNCHANGED isProcessing
       ELSE /\ isProcessing' = FALSE
            /\ Finish(i, [ops[i] EXCEPT !.error = "begin"])
  /\ UNCHANGED <<isEditing, selected, toolbar, overlaysRef, textBlocksRef,
                 customOverlays, nOps>>

\* UpdateReturns with an inner catch that only re-throws.
UpdateReturns_NoDiscard(i, ok) ==
  /\ ops[i].kind = "ai"
  /\ ops[i].pc = "update"
  /\ IF ok
       THEN /\ Continue(i, [ops[i] EXCEPT !.pc = "commit", !.commitCalls = @ + 1])
            /\ UNCHANGED isProcessing
       ELSE /\ isProcessing' = FALSE
            /\ Finish(i, [ops[i] EXCEPT !.error = "update"])
  /\ UNCHANGED <<isEditing, selected, toolbar, overlaysRef, textBlocksRef,
                 customOverlays, nOps>>

\* session.updateTextBlocks settles
UpdateReturns(i, ok) ==
  /\ ops[i].kind = "ai"
  /\ ops[i].pc = "update"
  /\ IF ok
       THEN Continue(i, [ops[i] EXCEPT !.pc = "commit", !.commitCalls = @ + 1])
       ELSE CallDiscard(i, "update")
  /\ UNCHANGED <<isEditing, selected, isProcessing, toolbar, overlaysRef,
                 textBlocksRef, customOverlays, nOps>>

\* after the commit: remove the overlays (the k-th removal throws, k = 0:
\* none does) and clear the editing state
ClearAfterCommit(i, k) ==
  /\ k \in 0..Len(overlaysRef)
  /\ customOverlays' =
       RemoveOverlays(customOverlays, overlaysRef, Completed(Len(overlaysRef), k))
  /\ IF k = 0
       THEN /\ overlaysRef' = <<>>
            /\ textBlocksRef' = <<>>
            /\ selected' = <<>>
            /\ isEditing' = FALSE
            /\ isProcessing' = FALSE
            /\ Finish(i, [ops[i] EXCEPT !.committed = TRUE])
       ELSE /\ Continue(i, [ops[i] EXCEPT !.pc = "discard", !.committed = TRUE,
                                          !.error = "remove",
                                          !.discardCalls = @ + 1])
            /\ UNCHANGED <<overlaysRef, textBlocksRef, selected, isEditing,
                           isProcessing>>

\* CommitReturns with an inner catch that only re-throws.
CommitReturns_NoDiscard(i, ok) ==
  /\ ops[i].kind = "ai"
  /\ ops[i].pc = "commit"
  /\ IF ok
       THEN \E k \in 0..Len(overlaysRef) : ClearAfterCommit(i, k)
       ELSE /\ isProcessing' = FALSE
            /\ Finish(i, [ops[i] EXCEPT !.error = "commit"])
            /\ UNCHANGED <<isEditing, selected, overlaysRef, textBlocksRef,
                           customOverlays>>
  /\ UNCHANGED <<toolbar, nOps>>

\* session.commit() settles
CommitReturns(i, ok) ==
  /\ ops[i].kind = "ai"
  /\ ops[i].pc = "commit"
  /\ IF ok
       THEN \E k \in 0..Len(overlaysRef) : ClearAfterCommit(i, k)
       ELSE /\ CallDiscard(i, "commit")
            /\ UNCHANGED <<isEditing, selected, isProcessing, overlaysRef,
                           textBlocksRef, customOverlays>>
  /\ UNCHANGED <<toolbar, nOps>>

\* DiscardReturns with an inner catch that also resets the selection and the
\* editing flag, as the path after a successful commit does.
DiscardReturns_ClearsState(i, ok) ==
  /\ ops[i].kind = "ai"
  /\ ops[i].pc = "discard"
  /\ isProcessing' = FALSE
  /\ selected' = <<>>
  /\ isEditing' = FALSE
  /\ Finish(i, [ops[i] EXCEPT !.discarded = ok, !.discardFailed = ~ok])
  /\ UNCHANGED <<toolbar, overlaysRef, textBlocksRef, customOverlays, nOps>>

\* session.discard() settles in the inner catch; the error is re-thrown to
\* the outer catch, and the outer finally runs
DiscardReturns(i, ok) ==
  /\ ops[i].kind = "ai"
  /\ ops[i].pc = "discard"
  /\ isProcessing' = FALSE
  /\ Finish(i, [ops[i] EXCEPT !.discarded = ok, !.discardFailed = ~ok])
  /\ UNCHANGED <<isEditing, selected, toolbar, overlaysRef, textBlocksRef,
                 customOverlays, nOps>>

aiToolbarOnPress ==
  \/ AIIgnored
  \/ AIStart

----------------------------------------------------------------------------
(* the load effect and its cleanup *)

\* NutrientViewer.unload(container): the viewer and everything it shows go
unload(items) == {}

\* The document the component shows, counted from 1.
document == nDocs + 1

\* LoadReturns with a catch that calls NutrientViewer.load once more.
LoadReturns_Retries(ok) ==
  /\ viewer = "loading"
  /\ IF ok
       THEN /\ viewer' = "ready"
            /\ loader' = [loader EXCEPT !.viewerInstance = document,
                                        !.listeners = @ \cup {document}]
       ELSE IF loader.loadCalls < 2
              THEN /\ viewer' = "loading"
                   /\ loader' = [loader EXCEPT !.loadCalls = @ + 1]
              ELSE /\ viewer' = "failed"
                   /\ loader' = loader
  /\ last' = NoLast
  /\ UNCHANGED <<isEditing, selected, isProcessing, toolbar, overlaysRef,
                 textBlocksRef, customOverlays, ops, nOps, nDocs, cleanedUp,
                 gen>>

\* NutrientViewer.load(...) settles: then stores the instance in
\* window.viewerInstance and registers the page-change listener, catch only
\* logs
LoadReturns(ok) ==
  /\ viewer = "loading"
  /\ viewer' = IF ok THEN "ready" ELSE "failed"
  /\ loader' = IF ok THEN [loader EXCEPT !.viewerInstance = document,
                                         !.listeners = @ \cup {document}]
                     ELSE loader
  /\ last' = NoLast
  /\ UNCHANGED <<isEditing, selected, isProcessing, toolbar, overlaysRef,
                 textBlocksRef, customOverlays, ops, nOps, nDocs, cleanedUp,
                 gen>>

\* The document prop changes: the cleanup of the effect removes the tracked
\* overlays, empties both refs and unloads the viewer; the effect then loads
\* the new document with the toolbar items of the current render.  The React
\* state and the invocations in flight are left as they are.  (An unmount
\* runs the same cleanup.)
DocumentChange ==
  /\ nDocs < MaxDocumentChanges
  /\ nDocs' = nDocs + 1
  /\ customOverlays' =
       unload(IF loader.viewerInstance # 0
                THEN RemoveOverlays(customOverlays, overlaysRef, Len(overlaysRef))
                ELSE customOverlays)
  /\ loader' = [loader EXCEPT !.loadCalls = 1]
  /\ overlaysRef' = <<>>
  /\ textBlocksRef' = <<>>
  /\ viewer' = "loading"
  /\ toolbar' = Rendered
  /\ cleanedUp' = TRUE
  /\ last' = [NoLast EXCEPT !.type = "cleanup", !.outstanding = InFlight # {}]
  /\ UNCHANGED <<isEditing, selected, isProcessing, ops, nOps, gen>>

----------------------------------------------------------------------------
(* generateRandomText, one call *)

\* the call: originalLength = originalText.length, result = '', attempts = 0
GenInit ==
  \E originalLength \in 0..MaxOriginalLength :
    gen = [pc |-> "loop", originalLength |-> originalLength, result |-> "",
           attempts |-> 0, stop |-> "none"]

\* the condition of the while loop
WordLoopCondition ==
  /\ Len(gen.result) < gen.originalLength - 10
  /\ gen.attempts < maxAttempts

\* one iteration of the while loop with randomWord drawn
WordLoopIteration(randomWord) ==
  /\ gen.pc = "loop"
  /\ WordLoopCondition
  /\ LET testResult == withSeparator(gen.result, randomWord)
     IN gen' = IF Len(testResult) <= gen.originalLength
                 THEN [gen EXCEPT !.result = testResult, !.attempts = @ + 1]
                 ELSE [gen EXCEPT !.pc = "break", !.stop = "break"]

\* the loop is over (condition false, or break): the rest of the function
GenReturns ==
  /\ \/ gen.pc = "loop" /\ ~WordLoopCondition
     \/ gen.pc = "break"
  /\ gen' = [gen EXCEPT !.pc = "returned",
                        !.result = afterWordLoop(gen.originalLength, gen.result),
                        !.stop = IF gen.pc = "break" THEN "break"
                                 ELSE IF gen.attempts >= maxAttempts
                                        THEN "attempts" ELSE "length"]

generateRandomText ==
  /\ \/ \E randomWord \in words : WordLoopIteration(randomWord)
     \/ GenReturns
  /\ UNCHANGED <<isEditing, selected, isProcessing, toolbar, overlaysRef,
                 textBlocksRef, customOverlays, ops, nOps, last, viewer, nDocs,
                 cleanedUp, loader>>

----------------------------------------------------------------------------
Next ==
  \/ \E ok \in BOOLEAN : LoadReturns(ok)
  \/ DocumentChange
  \/ Render
  \/ \E o \in customOverlays : OverlayClick(o)
  \/ handleContentBoxesPress
  \/ aiToolbarOnPress
  \/ \E i \in OpIds, ok \in BOOLEAN : EnterBeginReturns(i, ok)
  \/ \E i \in OpIds, ok \in BOOLEAN : GetTextBlocksReturns(i, ok)
  \/ \E i \in OpIds, ok \in BOOLEAN : TempDiscardReturns(i, ok)
  \/ \E i \in OpIds, ok \in BOOLEAN : AIBeginReturns(i, ok)
  \/ \E i \in OpIds, ok \in BOOLEAN : UpdateReturns(i, ok)
  \/ \E i \in OpIds, ok \in BOOLEAN : CommitReturns(i, ok)
  \/ \E i \in OpIds, ok \in BOOLEAN : DiscardReturns(i, ok)

Spec == Init /\ [][Next]_vars

\* An external call that is awaited settles: it returns or it fails.
Settles(i) ==
  \E ok \in BOOLEAN :
    \/ EnterBeginReturns(i, ok)
    \/ GetTextBlocksReturns(i, ok)
    \/ TempDiscardReturns(i, ok)
    \/ AIBeginReturns(i, ok)
    \/ UpdateReturns(i, ok)
    \/ CommitReturns(i, ok)
    \/ DiscardReturns(i, ok)

\* Spec with every awaited external call eventually settling.
FairSpec == Spec /\ \A i \in OpIds : WF_vars(Settles(i))

\* One call of generateRandomText on a text of any length up to the bound.
GenSpecInit ==
  /\ isEditing = FALSE
  /\ selected = <<>>
  /\ isProcessing = FALSE
  /\ toolbar = [isEditing |-> FALSE, selected |-> <<>>, isProcessing |-> FALSE]
  /\ overlaysRef = <<>>
  /\ textBlocksRef = <<>>
  /\ customOverlays = {}
  /\ ops = [i \in OpIds |-> NoOp]
  /\ nOps = 0
  /\ last = NoLast
  /\ viewer = "loading"
  /\ nDocs = 0
  /\ cleanedUp = FALSE
  /\ loader = FirstLoad
  /\ GenInit

GenSpec == GenSpecInit /\ [][generateRandomText]_vars

----------------------------------------------------------------------------
(* Properties *)

Range(seq) == {seq[k] : k \in DOMAIN seq}

\* The step just taken was a toolbar press that got past the guards.
PressAccepted == last.type \in {"press", "exit"}

\* The step just taken ended an invocation of the given kind.
Finished(kind) == last.type = "finish" /\ last.op.kind = kind

\* C1: a press of Content Boxes or AI Replace made while a region-enumeration
\* or replacement operation is outstanding is dropped: no press gets past the
\* guards while another invocation is awaiting an external call.
C1_PressDroppedWhileOutstanding == PressAccepted => ~last.outstanding

\* C2: the temporary session opened when entering editing mode has discard
\* called on it exactly once by the time the handler returns, whether the
\* enumeration and the overlay creation succeeded or threw, never before the
\* try body is over, and updateTextBlocks and commit are never called on it.
C2_TempSessionDiscardedOnce ==
  /\ \A i \in OpIds :
       ops[i].kind = "enter" =>
         /\ ops[i].updateCalls = 0
         /\ ops[i].commitCalls = 0
         /\ ops[i].discardCalls = IF ops[i].pc = "discard" THEN 1 ELSE 0
  /\ (Finished("enter") /\ last.op.opened) =>
       /\ last.op.discardCalls = 1
       /\ last.op.updateCalls = 0
       /\ last.op.commitCalls = 0

\* C2 witness: an entering invocation whose overlay creation threw has returned
\* with its session discarded once.
C2_Witness ==
  /\ Finished("enter")
  /\ last.op.error = "overlay"
  /\ last.op.discardCalls = 1
  /\ last.op.discarded

\* C3: when the replacement handler returns, the session it opened has been
\* committed or has had discard called on it, on every path (updateTextBlocks
\* fails, commit fails, overlay removal after the commit fails).
C3_WriteSessionClosed ==
  (Finished("ai") /\ last.op.opened) =>
    (last.op.committed \/ last.op.discardCalls = 1)

\* C3 witness: a replacement whose commit failed has returned with its session
\* discarded.
C3_Witness ==
  /\ Finished("ai")
  /\ last.op.error = "commit"
  /\ ~last.op.committed
  /\ last.op.discarded

\* C4: an AI Replace press gets past the guards only if, at the moment of the
\* press, editing mode is active and the selection set is not empty.
C4_AIPressNeedsEditingAndSelection ==
  (last.type = "press" /\ last.op.kind = "ai") =>
    (last.op.pre.isEditing /\ last.op.pre.selected # <<>>)

\* C5: when a replacement whose updateTextBlocks and commit both succeeded
\* returns, the selection set, the overlay list and the region list are empty
\* and editing mode is false.
C5_StateClearedAfterCommit ==
  (Finished("ai") /\ last.op.committed) =>
    /\ selected = <<>>
    /\ overlaysRef = <<>>
    /\ textBlocksRef = <<>>
    /\ ~isEditing

\* C6: a replacement that opened its session calls updateTextBlocks exactly
\* once, with one update per region of the selection set as it is at the press
\* (same ids, same order), and calls commit at most once and only after that
\* updateTextBlocks call succeeded.
C6_OneBatchOfTheSelection ==
  /\ \A i \in OpIds :
       ops[i].kind = "ai" =>
         /\ ops[i].updateCalls <= 1
         /\ ops[i].commitCalls <= 1
         /\ ops[i].commitCalls = 1 =>
              (ops[i].updateCalls = 1 /\ ops[i].error # "update")
         /\ ops[i].updateCalls = 1 => ops[i].batch = Ids(ops[i].pre.selected)
  /\ (Finished("ai") /\ last.op.opened) =>
       /\ last.op.updateCalls = 1
       /\ last.op.commitCalls <= 1
       /\ last.op.batch = Ids(last.op.pre.selected)

\* C7: once updateTextBlocks has failed in a replacement, commit is never
\* called on its session, and discard has been called on it while the handler
\* is still in its inner catch, before the error reaches the outer catch and
\* before the handler clears the busy flag.
C7_UpdateFailureDiscardsBeforeRethrow ==
  /\ \A i \in OpIds :
       (ops[i].kind = "ai" /\ ops[i].error = "update") =>
         /\ ops[i].pc = "discard"
         /\ ops[i].discardCalls = 1
         /\ ops[i].commitCalls = 0
  /\ (Finished("ai") /\ last.op.error = "update") =>
       /\ last.op.discardCalls = 1
       /\ last.op.commitCalls = 0

\* C7 witness: a replacement whose updateTextBlocks failed has returned, with
\* its session discarded, no commit, and the busy flag cleared.
C7_Witness ==
  /\ Finished("ai")
  /\ last.op.error = "update"
  /\ last.op.discarded
  /\ last.op.commitCalls = 0
  /\ ~isProcessing

\* C8 as claimed: when a replacement whose updateTextBlocks or commit failed
\* returns, editing mode is true, the selection set and the overlay list are
\* what they were at the press, and the busy flag is false.
C8_StateAsBeforeThePress ==
  (Finished("ai") /\ last.op.error \in {"update", "commit"}) =>
    /\ isEditing
    /\ selected = last.op.pre.selected
    /\ overlaysRef = last.op.pre.overlaysRef
    /\ ~isProcessing

\* A step of replacement invocation i, the press included.
AIStep(i) ==
  /\ ops[i].kind = "ai" \/ ops'[i].kind = "ai"
  /\ ops'[i] # ops[i]

\* The step in which invocation i learns that its commit succeeded.
CommitSucceeds(i) ==
  /\ ops[i].pc = "commit"
  /\ IF ops'[i].kind = "ai" THEN ops'[i].committed ELSE last'.op.committed

\* C8 amended: no step of a replacement other than the one that follows a
\* successful commit changes editing mode, the selection set or the overlay
\* list, so a replacement whose updateTextBlocks or commit fails leaves them to
\* the overlay clicks and other handlers; and the busy flag is false when such
\* an invocation returns.
C8_FailedReplacementKeepsState ==
  [][\A i \in OpIds :
       (AIStep(i) /\ ~CommitSucceeds(i)) =>
         /\ isEditing' = isEditing
         /\ selected' = selected
         /\ overlaysRef' = overlaysRef
         /\ ops'[i].kind = "none" => ~isProcessing']_vars

\* C8 witness: a replacement whose commit failed has returned; editing mode is
\* on, the selection and the overlays are still there, the busy flag is off.
C8_Witness ==
  /\ Finished("ai")
  /\ last.op.error = "commit"
  /\ isEditing
  /\ selected # <<>>
  /\ selected = last.op.pre.selected
  /\ overlaysRef # <<>>
  /\ ~isProcessing

\* The regions of pages 0..n-1 in page order, each tagged with its page index.
RECURSIVE BlocksOfPages(_)
BlocksOfPages(n) ==
  IF n = 0 THEN <<>>
  ELSE BlocksOfPages(n - 1) \o
         textBlocksWithPageIndex(getTextBlocks(n - 1), n - 1)

\* C9: when a Content Boxes activation made in the non-editing state returns
\* without any call having failed, the overlay list has one entry per region of
\* the document, the viewer shows each region's overlay on the region's page,
\* the region list holds the regions, and editing mode is true.
C9_OneOverlayPerRegion ==
  (/\ Finished("enter")
   /\ ~last.op.pre.isEditing
   /\ last.op.error = "none"
   /\ ~last.op.discardFailed) =>
    /\ Len(overlaysRef) = Len(BlocksOfPages(totalPageCount))
    /\ textBlocksRef = BlocksOfPages(totalPageCount)
    /\ \A tb \in Range(BlocksOfPages(totalPageCount)) :
         \E o \in customOverlays :
           o.id = overlayId(tb.id) /\ o.pageIndex = tb.pageIndex
    /\ isEditing

\* C10: a Content Boxes press that gets past the guards while editing mode is
\* active opens no session and leaves the overlay list, the region list and
\* the selection set empty and editing mode false.
C10_ExitClearsEverything ==
  (PressAccepted /\ last.op.kind \in {"exit", "enter"} /\ last.op.pre.isEditing) =>
    /\ last.type = "exit"
    /\ overlaysRef = <<>>
    /\ textBlocksRef = <<>>
    /\ selected = <<>>
    /\ ~isEditing

\* C11: when an activation made in the non-editing state returns after its
\* beginContentEditingSession or one of its getTextBlocks calls failed, editing
\* mode is false, the viewer shows no overlay, the overlay list and the region
\* list are empty as they were, and the busy flag is false.
C11_FailedEnterLeavesNothing ==
  (Finished("enter") /\ last.op.error \in {"begin", "getTextBlocks"}) =>
    /\ ~isEditing
    /\ customOverlays = {}
    /\ overlaysRef = <<>>
    /\ textBlocksRef = <<>>
    /\ ~isProcessing

\* The selection set after the click listener of overlay o has run twice in a
\* row: the second click finds the border colour the first one left.
ClickedTwice(o) ==
  LET isCurrentlyBlue == o.borderColor = "blue"
  IN ToggleSelected(ToggleSelected(selected, o.textBlock, isCurrentlyBlue),
                    o.textBlock, ~isCurrentlyBlue)

\* C12: in every reachable state, clicking the overlay of one region twice in
\* a row leaves the selection set with the membership it had before the first
\* click.
C12_DoubleClickRestoresSelection ==
  \A o \in customOverlays : Range(ClickedTwice(o)) = Range(selected)

\* C13: for an original text of any length L and any sequence of word draws,
\* generateRandomText returns a string of at most L characters, and a
\* non-empty one whenever L > 0.
C13_NoLongerThanOriginal ==
  gen.pc = "returned" =>
    /\ Len(gen.result) <= gen.originalLength
    /\ gen.originalLength > 0 => gen.result # ""

\* C14: in every reachable state every region of the selection set has its id
\* in the current region list.
C14_SelectionWithinRegionList ==
  \A tb \in Range(selected) : tb.id \in Range(Ids(textBlocksRef))

\* C15: in every reachable state where editing mode is true and no Content
\* Boxes invocation is in flight, the overlay list has as many entries as the
\* region list.
C15_OverlayPerRegionWhileEditing ==
  (isEditing /\ \A i \in OpIds : ops[i].kind # "enter") =>
    Len(overlaysRef) = Len(textBlocksRef)

\* C15 witness: an activation has returned with editing mode on, none is in
\* flight, and both lists hold the two regions of the document.
C15_Witness ==
  /\ Finished("enter")
  /\ isEditing
  /\ \A i \in OpIds : ops[i].kind # "enter"
  /\ Len(overlaysRef) = 2
  /\ Len(textBlocksRef) = 2

\* The calls an entering or replacing invocation has made so far contain no
\* repetition: one beginContentEditingSession, each page asked at most once,
\* one updateTextBlocks, one commit, one discard; and once a call of it has
\* failed the only call it still awaits is the discard of its session.
NoCallRepeated(op) ==
  /\ op.beginCalls = 1
  /\ Len(op.getTextBlocksCalls) <= totalPageCount
  /\ op.updateCalls <= 1
  /\ op.commitCalls <= 1
  /\ op.discardCalls <= 1
  /\ op.error # "none" => op.pc \in {"discard", "done"}

\* C16: no call is retried.  Every invocation that got past the guards opened
\* at most one session (so no more sessions are opened than presses were
\* accepted), and after a call of it failed it makes no call other than the
\* discard of its session and then returns; nothing is called again until a
\* new press.
C16_NoAutomaticRetry ==
  /\ \A i \in OpIds : ops[i].kind # "none" => NoCallRepeated(ops[i])
  /\ last.type = "finish" => NoCallRepeated(last.op)
  /\ last.type = "exit" => last.op.beginCalls = 0
  /\ Cardinality(InFlight) <= nOps

\* C16 witness: an activation whose beginContentEditingSession failed has
\* returned after that single call, and nothing is awaiting a call.
C16_Witness ==
  /\ Finished("enter")
  /\ last.op.error = "begin"
  /\ last.op.beginCalls = 1
  /\ InFlight = {}

\* C17 (first half): provided every awaited call eventually settles, every
\* invocation that got past the guards eventually returns, and the step in
\* which it returns clears the busy flag.
C17_EveryInvocationClearsTheFlag ==
  /\ \A i \in OpIds : (ops[i].kind # "none") ~> (ops[i].kind = "none")
  /\ [][\A i \in OpIds :
          (ops[i].kind # "none" /\ ops'[i].kind = "none") => ~isProcessing']_vars

\* C17: the busy flag is not cleared while an external call of an invocation
\* is still outstanding, so it is set whenever an invocation is in flight.
C17_BusyWhileCallOutstanding == InFlight # {} => isProcessing

\* C18: while the viewer shows overlays, a region is in the selection set
\* exactly when its overlay has the red border.
C18_SelectedIffRed ==
  \A o \in customOverlays :
    (o.borderColor = "red") <=>
      (\E k \in DOMAIN selected : selected[k].id = o.textBlock.id)

\* The page indexes 0..n-1 in increasing order.
PageIndexes(n) == [k \in 1..n |-> k - 1]

\* The getTextBlocks calls of an entering invocation so far are the page
\* indexes from 0 on in increasing order, without gap or repetition; while a
\* call is awaited it is the last one made and the blocks collected are those
\* of the pages before it; after a failed call none follows.
EnumeratesInOrder(op) ==
  /\ op.getTextBlocksCalls = PageIndexes(Len(op.getTextBlocksCalls))
  /\ Len(op.getTextBlocksCalls) <= totalPageCount
  /\ op.pc = "getTextBlocks" =>
       /\ Len(op.getTextBlocksCalls) = op.pageIndex + 1
       /\ op.allTextBlocks = BlocksOfPages(op.pageIndex)
  /\ (op.pc \in {"discard", "done"} /\ op.error \in {"none", "overlay"}) =>
       Len(op.getTextBlocksCalls) = totalPageCount
  /\ op.error = "begin" => op.getTextBlocksCalls = <<>>

\* The step in which entering invocation i leaves its page loop without a
\* failed call.
EnumerationEnds(i) ==
  /\ ops[i].kind = "enter"
  /\ ops[i].pc \in {"begin", "getTextBlocks"}
  /\ ops'[i].pc = "discard"
  /\ ops'[i].error # "getTextBlocks"

\* C19: an entering invocation calls getTextBlocks once per page index from 0
\* to totalPageCount - 1 in increasing order, each call after the previous one
\* returned, and stops at the first call that fails; the region list it
\* stores is the concatenation of the pages' blocks in page order, each tagged
\* with its page index.
C19_PagesEnumeratedInOrder ==
  [][/\ \A i \in OpIds : ops'[i].kind = "enter" => EnumeratesInOrder(ops'[i])
     /\ last'.type = "finish" /\ last'.op.kind = "enter" =>
          EnumeratesInOrder(last'.op)
     /\ \A i \in OpIds :
          EnumerationEnds(i) =>
            textBlocksRef' = BlocksOfPages(totalPageCount)]_vars

\* C19 witness: an activation has returned after enumerating both pages, and
\* the region list holds their blocks in page order.
C19_Witness ==
  /\ Finished("enter")
  /\ last.op.error = "none"
  /\ last.op.getTextBlocksCalls = <<0, 1>>
  /\ textBlocksRef = << [id |-> "r1", pageIndex |-> 0],
                        [id |-> "r2", pageIndex |-> 1] >>

\* C20: after the effect cleanup (document change or unmount) the viewer
\* shows no overlay and the overlay list and the region list are empty, and
\* they stay empty until the next Content Boxes press that gets past the
\* guards.
C20_EmptyAfterCleanup ==
  /\ last.type = "cleanup" => customOverlays = {}
  /\ cleanedUp =>
       /\ overlaysRef = <<>>
       /\ textBlocksRef = <<>>

\* The word loop of generateRandomText is over without its break.
WordLoopOver == gen.pc = "loop" /\ ~WordLoopCondition

\* Some word of the list would still fit after the result.
AnotherWordFits ==
  \E w \in words : Len(withSeparator(gen.result, w)) <= gen.originalLength

\* C21: the word loop stops only when the next word would make
\* the result longer than L or when 100 attempts have been made: it does not
\* end while another word would still fit.
C21_StopsOnlyWhenNoWordFits ==
  WordLoopOver => (gen.attempts >= maxAttempts \/ ~AnotherWordFits)

\* C22: when NutrientViewer.load has failed for the current document, load
\* was called once for it and is not pending again, no page-change listener
\* was registered for it, and window.viewerInstance does not hold an instance
\* of it.
C22_FailedLoadIsNotRetried ==
  viewer = "failed" =>
    /\ loader.loadCalls = 1
    /\ document \notin loader.listeners
    /\ loader.viewerInstance # document

\* C22 witness: the load of a second document has failed; the instance of the
\* first document is still the one in window.viewerInstance.
C22_Witness ==
  /\ viewer = "failed"
  /\ document = 2
  /\ loader.loadCalls = 1
  /\ loader.viewerInstance = 1
  /\ loader.listeners = {1}

\* C23: whenever editing mode is false and no invocation is in flight, the
\* overlay list is empty, the viewer shows no overlay of the component and the
\* selection set is empty.
C23_NothingLeftOutsideEditing ==
  (~isEditing /\ InFlight = {}) =>
    /\ overlaysRef = <<>>
    /\ customOverlays = {}
    /\ selected = <<>>

\* C24: every overlay the component added to the viewer and did not remove
\* is recorded in the overlay list.
C24_EveryOverlayIsTracked ==
  \A o \in customOverlays : o.id \in Range(overlaysRef)

\* C25: no session is both committed and discarded: discard is never called
\* on a session whose commit has succeeded.
C25_NoDiscardAfterCommit ==
  /\ \A i \in OpIds : ops[i].committed => ops[i].discardCalls = 0
  /\ (Finished("ai") /\ last.op.committed) =>
       (last.op.discardCalls = 0 /\ ~last.op.discarded)

\* The regions of the selection set the closure of replacement op worked on,
\* of its batch, and of the selection set as it was at the press.
SameRegions(s, t) == Range(s) = Range(t)

\* C26: the batch of a replacement holds exactly the regions that are in the
\* selection set at the moment of the press: the selection the handler maps
\* is the one of that moment, and so is the batch it submits, whatever is
\* clicked afterwards.
C26_BatchIsSelectionAtPress ==
  /\ \A i \in OpIds :
       ops[i].kind = "ai" =>
         /\ SameRegions(Ids(ops[i].selected), Ids(ops[i].pre.selected))
         /\ ops[i].updateCalls = 1 =>
              SameRegions(ops[i].batch, Ids(ops[i].pre.selected))
  /\ (Finished("ai") /\ last.op.updateCalls = 1) =>
       SameRegions(last.op.batch, Ids(last.op.pre.selected))

\* C27: the selection set never holds two entries with the same region id.
C27_NoDuplicateInSelection ==
  \A j, k \in DOMAIN selected :
    j # k => selected[j].id # selected[k].id

\* C27 witness: a blue overlay whose region was already in the selection set
\* has been clicked, and the region is in the selection set once.
C27_Witness ==
  /\ last.type = "click"
  /\ \E o \in customOverlays :
       /\ o.textBlock = last.op.selected[1]
       /\ o.borderColor = "red"
  /\ last.op.selected[1].id \in Range(Ids(last.op.pre.selected))
  /\ Cardinality({k \in DOMAIN selected :
                    selected[k].id = last.op.selected[1].id}) = 1

====
